---------------------------- MODULE Spec2Model ----------------------------
(***************************************************************************)
(* Subtitle timing and synchronisation engine of custom-subtitles.         *)
(*                                                                         *)
(* Two players exist in the repository: DualSubtitlePlayer (content.js,    *)
(* two SubtitleTrack objects) and SubtitlePlayer (the single-track         *)
(* variant).  The variable `variant` says which script is running; both    *)
(* are driven by requestAnimationFrame callbacks, button clicks, slider    *)
(* and text inputs and "createSubtitleOverlay" messages.                   *)
(*                                                                         *)
(* JavaScript strings are sequences of one-character strings, so that      *)
(* trim, split, Number and parseInt are computed as the engine computes    *)
(* them.  Times are milliseconds.                                          *)
(***************************************************************************)
EXTENDS Integers, Sequences, FiniteSets, TLC

(***************************************************************************)
(* JavaScript values                                                       *)
(***************************************************************************)

\* `undefined` where a string was expected (a missing array element).
Undefined == <<"undefined">>

\* IEEE NaN.  No time of the model is this small, so the value is free.
NaN == -(10^9)

IsNaN(x) == x = NaN

\* a + b and a * b of JavaScript numbers: NaN is absorbing.
Add(a, b) == IF IsNaN(a) \/ IsNaN(b) THEN NaN ELSE a + b

Mul(a, b) == IF IsNaN(a) \/ IsNaN(b) THEN NaN ELSE a * b

\* a >= b and a <= b of JavaScript numbers: false when either is NaN.
Ge(a, b) == ~IsNaN(a) /\ ~IsNaN(b) /\ a >= b

Le(a, b) == ~IsNaN(a) /\ ~IsNaN(b) /\ a <= b

Digits == <<"0", "1", "2", "3", "4", "5", "6", "7", "8", "9">>

IsDigit(c) == \E d \in 1..10 : Digits[d] = c

DigitVal(c) == (CHOOSE d \in 1..10 : Digits[d] = c) - 1

\* WhiteSpace and LineTerminator characters of the model's alphabet.
IsSpace(c) == c \in {" ", "\n", "\r", "\t"}

\* s[i], or "" past the end.
At(s, i) == IF i >= 1 /\ i <= Len(s) THEN s[i] ELSE ""

\* String.prototype.trim
Trim(s) ==
  LET keep == {i \in 1..Len(s) : ~IsSpace(s[i])}
  IN IF keep = {} THEN <<>>
     ELSE SubSeq(s, CHOOSE i \in keep : \A j \in keep : i <= j,
                    CHOOSE i \in keep : \A j \in keep : i >= j)

RECURSIVE DigitsValue(_, _)
\* The decimal value of the digit string s, read after the value acc.
DigitsValue(s, acc) ==
  IF s = <<>> THEN acc
  ELSE DigitsValue(Tail(s), acc * 10 + DigitVal(Head(s)))

AllDigits(s) == \A i \in 1..Len(s) : IsDigit(s[i])

\* Number(x) for the strings of the model's alphabet (no ".", "e", "0x",
\* "Infinity"): the trimmed string is empty (0), an optionally signed run of
\* digits (its value), or anything else (NaN).  Number(undefined) is NaN.
Number(x) ==
  IF x = Undefined THEN NaN
  ELSE LET t == Trim(x)
       IN IF t = <<>> THEN 0
          ELSE IF Head(t) \in {"+", "-"}
               THEN IF Len(t) > 1 /\ AllDigits(Tail(t))
                    THEN (IF Head(t) = "-" THEN -1 ELSE 1) * DigitsValue(Tail(t), 0)
                    ELSE NaN
               ELSE IF AllDigits(t) THEN DigitsValue(t, 0) ELSE NaN

\* The longest prefix of s made of digits.
DigitPrefix(s) ==
  LET stop == {i \in 1..Len(s) : ~IsDigit(s[i])}
  IN IF stop = {} THEN s
     ELSE SubSeq(s, 1, (CHOOSE i \in stop : \A j \in stop : i <= j) - 1)

\* The suffix of s from its first non-space character.
SkipSpace(s) ==
  LET keep == {i \in 1..Len(s) : ~IsSpace(s[i])}
  IN IF keep = {} THEN <<>>
     ELSE SubSeq(s, CHOOSE i \in keep : \A j \in keep : i <= j, Len(s))

\* parseInt(x), radix 10: leading white space is skipped, a sign is read, and
\* the digits up to the first other character are the value; NaN when there
\* is no digit.  parseInt(undefined) reads the string "undefined": NaN.
ParseInt(x) ==
  IF x = Undefined THEN NaN
  ELSE LET t    == SkipSpace(x)
           neg  == t # <<>> /\ Head(t) = "-"
           body == IF t # <<>> /\ Head(t) \in {"+", "-"} THEN Tail(t) ELSE t
           ds   == DigitPrefix(body)
       IN IF ds = <<>> THEN NaN
          ELSE (IF neg THEN -1 ELSE 1) * DigitsValue(ds, 0)

\* Whether the literal sep occurs in s at index i.
StartsWithAt(s, sep, i) ==
  /\ i + Len(sep) - 1 <= Len(s)
  /\ \A k \in 1..Len(sep) : s[i + k - 1] = sep[k]

RECURSIVE SplitFrom(_, _, _, _)
\* The parts of s around the occurrences of sep found from index i on; the
\* current part starts at index cur.
SplitFrom(s, sep, i, cur) ==
  IF i > Len(s) THEN <<SubSeq(s, cur, Len(s))>>
  ELSE IF StartsWithAt(s, sep, i)
       THEN <<SubSeq(s, cur, i - 1)>>
              \o SplitFrom(s, sep, i + Len(sep), i + Len(sep))
       ELSE SplitFrom(s, sep, i + 1, cur)

\* String.prototype.split with a non-empty string separator.
Split(s, sep) == SplitFrom(s, sep, 1, 1)

\* The number of consecutive "\n" in s from index i on.
NewlineRun(s, i) ==
  LET stop == {j \in i..Len(s) : s[j] # "\n"}
  IN IF stop = {} THEN Len(s) + 1 - i
     ELSE (CHOOSE j \in stop : \A k \in stop : j <= k) - i

\* The length of the match of /\r?\n\r?\n+/ at index i of s, 0 when there is
\* none.  Where "\r" is present it must be taken: the pattern then demands
\* "\n", so backtracking over the optional "\r" never finds another match.
BlankLineMatch(s, i) ==
  LET a == IF At(s, i) = "\r" THEN i + 1 ELSE i
      b == a + 1
      c == IF At(s, b) = "\r" THEN b + 1 ELSE b
  IN IF At(s, a) = "\n" /\ At(s, c) = "\n"
     THEN c + NewlineRun(s, c) - i
     ELSE 0

\* The length of the match of /\r?\n/ at index i of s, 0 when there is none.
LineBreakMatch(s, i) ==
  IF At(s, i) = "\r" /\ At(s, i + 1) = "\n" THEN 2
  ELSE IF At(s, i) = "\n" THEN 1
  ELSE 0

RECURSIVE SplitBlankFrom(_, _, _)
SplitBlankFrom(s, i, cur) ==
  IF i > Len(s) THEN <<SubSeq(s, cur, Len(s))>>
  ELSE LET n == BlankLineMatch(s, i)
       IN IF n > 0
          THEN <<SubSeq(s, cur, i - 1)>> \o SplitBlankFrom(s, i + n, i + n)
          ELSE SplitBlankFrom(s, i + 1, cur)

RECURSIVE SplitLineFrom(_, _, _)
SplitLineFrom(s, i, cur) ==
  IF i > Len(s) THEN <<SubSeq(s, cur, Len(s))>>
  ELSE LET n == LineBreakMatch(s, i)
       IN IF n > 0
          THEN <<SubSeq(s, cur, i - 1)>> \o SplitLineFrom(s, i + n, i + n)
          ELSE SplitLineFrom(s, i + 1, cur)

RECURSIVE Join(_, _)
\* Array.prototype.join
Join(parts, sep) ==
  IF parts = <<>> THEN <<>>
  ELSE IF Len(parts) = 1 THEN parts[1]
  ELSE parts[1] \o sep \o Join(Tail(parts), sep)

\* arr[i] of a JavaScript array of strings: undefined past the end.
Elem(arr, i) == IF i <= Len(arr) THEN arr[i] ELSE Undefined

(***************************************************************************)
(* SRT parsing.  A result is [ok |-> TRUE, subs |-> entries], or           *)
(* [ok |-> FALSE] when the JavaScript throws.                              *)
(***************************************************************************)

Thrown == [ok |-> FALSE, subs |-> <<>>]

\* Mutant: the hours are weighted as minutes.
timeToMs_hoursAsMinutes(timeStr) ==
  LET halves  == Split(timeStr, <<",">>)
      time    == halves[1]
      ms      == Elem(halves, 2)
      fields  == Split(time, <<":">>)
      hours   == Number(Elem(fields, 1))
      minutes == Number(Elem(fields, 2))
      seconds == Number(Elem(fields, 3))
  IN Add(Add(Add(Mul(hours, 60000), Mul(minutes, 60000)),
             Mul(seconds, 1000)), ParseInt(ms))

\* SubtitleTrack.timeToMs and SubtitlePlayer.timeToMs
timeToMs(timeStr) ==
  LET halves  == Split(timeStr, <<",">>)
      time    == halves[1]
      ms      == Elem(halves, 2)
      fields  == Split(time, <<":">>)
      hours   == Number(Elem(fields, 1))
      minutes == Number(Elem(fields, 2))
      seconds == Number(Elem(fields, 3))
  IN Add(Add(Add(Mul(hours, 3600000), Mul(minutes, 60000)),
             Mul(seconds, 1000)), ParseInt(ms))

\* The callback of blocks.map, given the block's lines: it throws when there
\* is no second line (timecode is undefined, and split is called on it) or no
\* " --> " in it (endTime is undefined, and timeToMs calls split on it).
BlockThrows(lines) ==
  \/ Len(lines) < 2
  \/ Len(Split(lines[2], <<" ", "-", "-", ">", " ">>)) < 2

BlockEntry(lines) ==
  LET times == Split(lines[2], <<" ", "-", "-", ">", " ">>)
  IN [start |-> timeToMs(times[1]),
      end   |-> timeToMs(times[2]),
      text  |-> Join(SubSeq(lines, 3, Len(lines)), <<"\n">>)]

\* SubtitleTrack.parseSRT
parseSRT(content) ==
  LET blocks == SplitBlankFrom(Trim(content), 1, 1)
      lines(k) == SplitLineFrom(blocks[k], 1, 1)
  IN IF \E k \in 1..Len(blocks) : BlockThrows(lines(k)) THEN Thrown
     ELSE [ok |-> TRUE,
           subs |-> [k \in 1..Len(blocks) |-> BlockEntry(lines(k))]]

\* SubtitlePlayer.parseSRT: blocks are split on "\n\n" and lines on "\n".
Single_parseSRT(content) ==
  LET blocks == Split(Trim(content), <<"\n", "\n">>)
      lines(k) == Split(blocks[k], <<"\n">>)
  IN IF \E k \in 1..Len(blocks) : BlockThrows(lines(k)) THEN Thrown
     ELSE [ok |-> TRUE,
           subs |-> [k \in 1..Len(blocks) |-> BlockEntry(lines(k))]]

RECURSIVE MaxEnd(_)
\* The largest end time of the entries.
MaxEnd(subs) ==
  IF subs = <<>> THEN 0
  ELSE IF Head(subs).end > MaxEnd(Tail(subs)) THEN Head(subs).end
  ELSE MaxEnd(Tail(subs))

\* Mutant: the duration is the largest end time.
DurationOf_maxEnd(subs) == MaxEnd(subs)

\* this.subtitles[this.subtitles.length - 1]?.end ?? 0
DurationOf(subs) == IF subs = <<>> THEN 0 ELSE subs[Len(subs)].end


\* parseTimeInput returns null for an unusable string.
Null == NaN - 1

\* Whether [hours, minutes, seconds] = fields.map(Number) holds a NaN.
AnyFieldNaN(fields) ==
  \/ IsNaN(Number(Elem(fields, 1)))
  \/ IsNaN(Number(Elem(fields, 2)))
  \/ IsNaN(Number(Elem(fields, 3)))

FieldsToMs(fields) ==
  Number(fields[1]) * 3600000 + Number(fields[2]) * 60000
    + Number(fields[3]) * 1000

\* DualSubtitlePlayer.parseTimeInput: the part before "/" is trimmed and
\* split on ":".
parseTimeInput(timeStr) ==
  LET timePart == Trim(Split(timeStr, <<"/">>)[1])
      fields   == Split(timePart, <<":">>)
  IN IF AnyFieldNaN(fields) THEN Null ELSE FieldsToMs(fields)

\* SubtitlePlayer.parseTimeInput: the whole string is split on ":".
Single_parseTimeInput(timeStr) ==
  LET fields == Split(timeStr, <<":">>)
  IN IF AnyFieldNaN(fields) THEN Null ELSE FieldsToMs(fields)

(***************************************************************************)
(* The time display                                                        *)
(***************************************************************************)

\* Math.floor(a / b) for b > 0.
FloorDiv(a, b) == IF IsNaN(a) THEN NaN ELSE a \div b

\* a % b of JavaScript for b > 0: the result has the sign of a.
Rem(a, b) ==
  IF IsNaN(a) THEN NaN
  ELSE IF a >= 0 THEN a % b
  ELSE -((-a) % b)

RECURSIVE NatToString(_)
\* The decimal digits of the natural number n.
NatToString(n) ==
  IF n < 10 THEN <<Digits[n + 1]>>
  ELSE NatToString(n \div 10) \o <<Digits[(n % 10) + 1]>>

\* Number.prototype.toString of an integer or NaN.
NumberToString(n) ==
  IF IsNaN(n) THEN <<"N", "a", "N">>
  ELSE IF n < 0 THEN <<"-">> \o NatToString(-n)
  ELSE NatToString(n)

\* String.prototype.padStart(2, '0')
PadStart2(str) == IF Len(str) < 2 THEN <<"0">> \o str ELSE str

\* The inner function format of formatTimeDisplay (formatTime of the
\* single-track player is the same code).
format(ms) ==
  LET s == FloorDiv(ms, 1000)
      m == FloorDiv(s, 60)
      h == FloorDiv(m, 60)
  IN PadStart2(NumberToString(h)) \o <<":">>
       \o PadStart2(NumberToString(Rem(m, 60))) \o <<":">>
       \o PadStart2(NumberToString(Rem(s, 60)))

\* DualSubtitlePlayer.formatTimeDisplay, and the text updateTimeDisplay of
\* the single-track player writes.
formatTimeDisplay(current, total) ==
  format(current) \o <<" ", "/", " ">> \o format(total)

(***************************************************************************)
(* The active caption                                                      *)
(***************************************************************************)

RECURSIVE FindFrom_endExclusive(_, _, _)
\* Mutant: an entry is no longer active at its end time.
FindFrom_endExclusive(subs, adjustedTime, i) ==
  IF i > Len(subs) THEN 0
  ELSE IF Ge(adjustedTime, subs[i].start) /\ adjustedTime < subs[i].end
       THEN i
       ELSE FindFrom_endExclusive(subs, adjustedTime, i + 1)

RECURSIVE FindFrom(_, _, _)
\* Array.prototype.find over subs from index i on, with the callback
\* adjustedTime >= sub.start && adjustedTime <= sub.end: the index of the
\* entry found, 0 for undefined.
FindFrom(subs, adjustedTime, i) ==
  IF i > Len(subs) THEN 0
  ELSE IF Ge(adjustedTime, subs[i].start) /\ Le(adjustedTime, subs[i].end)
       THEN i
       ELSE FindFrom(subs, adjustedTime, i + 1)

\* SubtitleTrack.getCurrentSubtitle
getCurrentSubtitle(track) ==
  FindFrom(track.subtitles, track.currentTimeMs + track.timeOffset, 1)

\* The find of SubtitlePlayer.updateSubtitleDisplay: no offset is added.
Single_currentSub(track) ==
  FindFrom(track.subtitles, track.currentTimeMs, 1)

(***************************************************************************)
(* Inputs                                                                  *)
(***************************************************************************)

\* One caption, 500..1000 ms.
SrtOne ==
  <<"1", "\n", "0", "0", ":", "0", "0", ":", "0", "0", ",", "5", "0", "0",
    " ", "-", "-", ">", " ", "0", "0", ":", "0", "0", ":", "0", "1", ",",
    "0", "0", "0", "\n", "H", "i">>

\* The seconds field of the end time is not a number.
SrtBadEnd ==
  <<"1", "\n", "0", "0", ":", "0", "0", ":", "0", "0", ",", "5", "0", "0",
    " ", "-", "-", ">", " ", "0", "0", ":", "0", "0", ":", "0", "a", ",",
    "0", "0", "0", "\n", "H", "i">>

\* A file of white space only.
SrtEmpty ==
  <<" ", "\n">>

\* The block has an index line only.
SrtNoTimecode ==
  <<"1">>

\* The separator of the timecode line is "->".
SrtBadArrow ==
  <<"1", "\n", "0", "0", ":", "0", "0", ":", "0", "0", ",", "5", "0", "0",
    " ", "-", ">", " ", "0", "0", ":", "0", "0", ":", "0", "1", ",",
    "0", "0", "0", "\n", "H", "i">>

\* A time of day as a subtitle file's author means it.
Clock(h, m, s, ms) == [h |-> h, m |-> m, s |-> s, ms |-> ms]

\* Two blocks whose ranges overlap, the later range first: 1000..2500 "A",
\* then 500..2000 "B".
FileTwo ==
  <<[start |-> Clock(0, 0, 1, 0), end |-> Clock(0, 0, 2, 500),
     text |-> <<"A">>],
    [start |-> Clock(0, 0, 0, 500), end |-> Clock(0, 0, 2, 0),
     text |-> <<"B">>]>>

\* Two blocks with hours and minutes, the second with two text lines.
FileHour ==
  <<[start |-> Clock(1, 2, 3, 4), end |-> Clock(10, 20, 30, 400),
     text |-> <<"C">>],
    [start |-> Clock(0, 59, 59, 999), end |-> Clock(1, 0, 0, 0),
     text |-> <<"D", "\n", "E">>]>>

FileSpecs == {FileTwo, FileHour}

RECURSIVE ZeroPad(_, _)
\* The digit string str, zero-padded on the left to the given width.
ZeroPad(str, width) ==
  IF Len(str) >= width THEN str ELSE ZeroPad(<<"0">> \o str, width)

\* HH:MM:SS,mmm as it stands in a file.
TimecodeText(t) ==
  ZeroPad(NatToString(t.h), 2) \o <<":">> \o ZeroPad(NatToString(t.m), 2)
    \o <<":">> \o ZeroPad(NatToString(t.s), 2) \o <<",">>
    \o ZeroPad(NatToString(t.ms), 3)

\* The text of the file whose blocks are given, with the line break nl
\* (text lines are separated by "\n" as given).
SrtText(blocks, nl) ==
  Join([k \in 1..Len(blocks) |->
          NatToString(k) \o nl \o TimecodeText(blocks[k].start)
            \o <<" ", "-", "-", ">", " ">> \o TimecodeText(blocks[k].end)
            \o nl \o blocks[k].text],
       nl \o nl)

LF == <<"\n">>

CRLF == <<"\r", "\n">>

\* The files a user drops on the dual player's popup.
Contents == {SrtOne, SrtEmpty}

\* The malformed files: no timecode line, a malformed separator, a
\* non-numeric time field.
MalformedContents == {SrtNoTimecode, SrtBadArrow, SrtBadEnd}

\* The well-formed files, each with the blocks its author wrote.
Files ==
  {[blocks |-> FileTwo, text |-> SrtText(FileTwo, LF)],
   [blocks |-> FileHour, text |-> SrtText(FileHour, CRLF)]}

LoadContents == {f.text : f \in Files} \cup {SrtEmpty} \cup MalformedContents

\* The single-track player is given files with "\n" line breaks, the only
\* ones SubtitlePlayer.parseSRT splits on.
Single_Files ==
  {[blocks |-> FileTwo, text |-> SrtText(FileTwo, LF)],
   [blocks |-> FileHour, text |-> SrtText(FileHour, LF)]}

Single_LoadContents ==
  {f.text : f \in Single_Files} \cup {SrtEmpty} \cup MalformedContents

\* The files a user drops on the single-track player's popup.
Single_Contents == {SrtOne, SrtBadEnd, SrtEmpty}

TimeFive ==
  <<"0", "0", ":", "0", "0", ":", "0", "5">>

TimeBad ==
  <<"0", "0", ":", "0", "a", ":", "0", "0">>

\* The strings a user types into the time field.
TimeInputs == {TimeFive, TimeBad}

TimeOne ==
  <<"0", "0", ":", "0", "0", ":", "0", "1">>

\* The seconds field is left out.
TimeShort ==
  <<"0", "0", ":", "0", "5">>

\* The minutes field is empty.
TimeGap ==
  <<"0", "0", ":", ":", "0", "7">>

\* The seconds are negative.
TimeNeg ==
  <<"0", "0", ":", "0", "0", ":", "-", "5">>

\* The strings of the typing specification.
TypedInputs == TimeInputs \cup {TimeOne, TimeShort, TimeGap, TimeNeg}

\* What the players' parsers make of each input (computed once).
ParsedSrt == [c \in Contents \cup LoadContents |-> parseSRT(c)]

Single_ParsedSrt ==
  [c \in Single_Contents \cup Single_LoadContents |-> Single_parseSRT(c)]

ParsedTime == [t \in TypedInputs |-> parseTimeInput(t)]

Single_ParsedTime == [t \in TypedInputs |-> Single_parseTimeInput(t)]

\* The positions a user drags the slider to (multiples of its step, 100).
SliderStops == {0, 500}

\* The time that passes between two events.
ClockSteps == {500}

\* performance.now() never exceeds this in the model.
MaxNow == 1000

\* The browser holds at most this many pending frame callbacks in the model.
MaxPending == 2

(***************************************************************************)
(* State                                                                   *)
(***************************************************************************)

VARIABLES
  variant,          \* "dual": DualSubtitlePlayer; "single": SubtitlePlayer
  isPlaying,        \* this.isPlaying
  syncEnabled,      \* DualSubtitlePlayer.syncEnabled
  tracks,           \* slot -> [subtitles, currentTimeMs, duration, timeOffset]
  animationFrameId, \* this.animationFrameId; 0 is null or undefined
  frames,           \* the browser's pending requestAnimationFrame callbacks:
                    \*   [id, lastTime (the closure's variable)]
  now,              \* performance.now()
  lastOp            \* the last handler that ran: [op, slot, arg]

vars ==
  <<variant, isPlaying, syncEnabled, tracks, animationFrameId, frames, now,
    lastOp>>

Op(op, slot, arg) == [op |-> op, slot |-> slot, arg |-> arg]

SlotsOf(v) == IF v = "dual" THEN {"primary", "secondary"} ELSE {"primary"}

\* A SubtitleTrack as constructed (the single-track player keeps the same
\* fields on itself).
NewTrack == [subtitles |-> <<>>, currentTimeMs |-> 0, duration |-> 0,
             timeOffset |-> 0]

\* The state once the overlay and its controls exist.
Init ==
  /\ variant \in {"dual", "single"}
  /\ isPlaying = FALSE
  /\ syncEnabled = TRUE
  /\ tracks = [k \in SlotsOf(variant) |-> NewTrack]
  /\ animationFrameId = 0
  /\ frames = {}
  /\ now = 0
  /\ lastOp = Op("init", "none", 0)

(***************************************************************************)
(* The browser's animation frames                                          *)
(***************************************************************************)

Handles(pending) == {f.id : f \in pending}

\* requestAnimationFrame returns a handle no pending callback holds.  Every
\* handle returned is stored in animationFrameId at once, so no stale copy of
\* a handle survives the call and the least free one stands for a new one.
FreshHandle(pending) ==
  CHOOSE h \in 1..(Cardinality(pending) + 1) :
    /\ h \notin Handles(pending)
    /\ \A g \in 1..(Cardinality(pending) + 1) :
         g \notin Handles(pending) => h <= g

cancelAnimationFrame(pending, id) == {f \in pending : f.id # id}

\* Mutant: the pending callback is not cancelled.
CancelIfSet_never(pending) == pending

\* if (this.animationFrameId) cancelAnimationFrame(this.animationFrameId)
CancelIfSet(pending) ==
  IF animationFrameId # 0 THEN cancelAnimationFrame(pending, animationFrameId)
  ELSE pending

\* Time passes.
AdvanceClock(d) ==
  /\ now + d <= MaxNow
  /\ now' = now + d
  /\ UNCHANGED <<variant, isPlaying, syncEnabled, tracks, animationFrameId,
                 frames, lastOp>>

(***************************************************************************)
(* DualSubtitlePlayer                                                      *)
(***************************************************************************)

\* Mutant: the load puts a newly constructed track in the slot.
Track_loadSubtitles_newTrack(track, subs) ==
  [NewTrack EXCEPT !.subtitles = subs, !.duration = DurationOf(subs)]

\* SubtitleTrack.loadSubtitles, given the parsed entries.
Track_loadSubtitles(track, subs) ==
  [track EXCEPT !.subtitles = subs,
                !.duration = DurationOf(subs),
                !.currentTimeMs = 0]

\* DualSubtitlePlayer.loadSubtitles, from the "createSubtitleOverlay" message;
\* a throw of parseSRT leaves the track as it was.
Dual_loadSubtitles(content, isSecondary) ==
  LET key    == IF isSecondary THEN "secondary" ELSE "primary"
      parsed == ParsedSrt[content]
  IN /\ variant = "dual"
     /\ tracks' = IF parsed.ok
                  THEN [tracks EXCEPT
                          ![key] = Track_loadSubtitles(@, parsed.subs)]
                  ELSE tracks
     /\ lastOp' = Op(IF parsed.ok THEN "load" ELSE "loadFailed", key, 0)
     /\ UNCHANGED <<variant, isPlaying, syncEnabled, animationFrameId,
                    frames, now>>

\* Mutant: the offsets are subtracted the other way round.
setAllTracksTime_swapped(newTime, sourceTrack) ==
  LET sourceOffset == tracks[sourceTrack].timeOffset
  IN [key \in DOMAIN tracks |->
        IF key = sourceTrack
        THEN [tracks[key] EXCEPT !.currentTimeMs = newTime]
        ELSE [tracks[key] EXCEPT
                !.currentTimeMs =
                   newTime + (tracks[key].timeOffset - sourceOffset)]]

\* Mutant: every track is set to newTime, whatever the offsets.
setAllTracksTime_noOffset(newTime, sourceTrack) ==
  [key \in DOMAIN tracks |-> [tracks[key] EXCEPT !.currentTimeMs = newTime]]

\* Mutant: only the source track is moved.
setAllTracksTime_sourceOnly(newTime, sourceTrack) ==
  [tracks EXCEPT ![sourceTrack].currentTimeMs = newTime]

setAllTracksTime(newTime, sourceTrack) ==
  LET sourceOffset == tracks[sourceTrack].timeOffset
  IN [key \in DOMAIN tracks |->
        IF key = sourceTrack
        THEN [tracks[key] EXCEPT !.currentTimeMs = newTime]
        ELSE [tracks[key] EXCEPT
                !.currentTimeMs =
                   newTime + (sourceOffset - tracks[key].timeOffset)]]

\* Mutant: the seek moves every track although sync is off.
SeekTracks_alwaysSynced(newTime, trackKey) ==
  setAllTracksTime(newTime, trackKey)

\* The body both seek handlers share.
SeekTracks(newTime, trackKey) ==
  IF syncEnabled
  THEN setAllTracksTime(newTime, trackKey)
  ELSE [tracks EXCEPT ![trackKey].currentTimeMs = newTime]

\* The slider's value: a multiple of its step between min (0) and max (the
\* track's duration, as updateDisplay sets it), which parseInt reads back.
SliderValues(track) == {v \in SliderStops : v = 0 \/ Le(v, track.duration)}

\* The progress bar's "input" handler.
Dual_progressInput(trackKey, newTime) ==
  /\ variant = "dual"
  /\ newTime \in SliderValues(tracks[trackKey])
  /\ tracks' = SeekTracks(newTime, trackKey)
  /\ lastOp' = Op("seek", trackKey, newTime)
  /\ UNCHANGED <<variant, isPlaying, syncEnabled, animationFrameId, frames,
                 now>>

\* The time field's "change" handler.
Dual_timeChange(trackKey, value) ==
  LET newTime == ParsedTime[value]
  IN /\ variant = "dual"
     /\ tracks' = IF newTime # Null THEN SeekTracks(newTime, trackKey)
                  ELSE tracks
     /\ lastOp' = IF newTime # Null THEN Op("seek", trackKey, newTime)
                  ELSE Op("seekRejected", trackKey, 0)
     /\ UNCHANGED <<variant, isPlaying, syncEnabled, animationFrameId,
                    frames, now>>

\* The sync button's "click" handler.
Dual_syncToggle ==
  /\ variant = "dual"
  /\ syncEnabled' = ~syncEnabled
  /\ lastOp' = Op("syncToggle", "none", 0)
  /\ UNCHANGED <<variant, isPlaying, tracks, animationFrameId, frames, now>>

\* startTimer: lastTime = performance.now(), and the first callback is
\* registered.
startTimer ==
  /\ Cardinality(frames) < MaxPending
  /\ frames' = frames \cup {[id |-> FreshHandle(frames), lastTime |-> now]}
  /\ animationFrameId' = FreshHandle(frames)

Dual_play ==
  /\ variant = "dual"
  /\ isPlaying' = TRUE
  /\ startTimer
  /\ lastOp' = Op("play", "none", now)
  /\ UNCHANGED <<variant, syncEnabled, tracks, now>>

Dual_pause ==
  /\ variant = "dual"
  /\ isPlaying' = FALSE
  /\ frames' = CancelIfSet(frames)
  /\ lastOp' = Op("pause", "none", 0)
  /\ UNCHANGED <<variant, syncEnabled, tracks, animationFrameId, now>>

Dual_togglePlayPause == IF isPlaying THEN Dual_pause ELSE Dual_play

\* Mutant: the callback does not look at isPlaying.
Dual_frameReturns_never == FALSE

\* Mutant: the callback also stops once a track is at its duration.
Dual_frameReturns_atEnd ==
  \/ ~isPlaying
  \/ \E k \in DOMAIN tracks :
       Ge(tracks[k].currentTimeMs, tracks[k].duration)

\* if (!this.isPlaying) return;
Dual_frameReturns == ~isPlaying

\* Mutant: only the tracks that hold subtitles advance.
AdvanceTracks_loadedOnly(deltaTime) ==
  [k \in DOMAIN tracks |->
     IF tracks[k].subtitles = <<>> THEN tracks[k]
     ELSE [tracks[k] EXCEPT !.currentTimeMs = @ + deltaTime]]

\* Mutant: only the primary track advances.
AdvanceTracks_primaryOnly(deltaTime) ==
  [tracks EXCEPT !["primary"].currentTimeMs = @ + deltaTime]

\* for (const track of Object.values(this.tracks))
\*   track.currentTimeMs += deltaTime;
AdvanceTracks(deltaTime) ==
  [k \in DOMAIN tracks |->
     [tracks[k] EXCEPT !.currentTimeMs = @ + deltaTime]]

\* The frame callback updateFrame of the closure f, run with the timestamp
\* now.
Dual_updateFrame(f) ==
  /\ variant = "dual"
  /\ f \in frames
  /\ IF Dual_frameReturns
     THEN /\ frames' = frames \ {f}
          /\ lastOp' = Op("frame", "none", 0)
          /\ UNCHANGED <<tracks, animationFrameId>>
     ELSE LET deltaTime == now - f.lastTime
              pending   == frames \ {f}
          IN /\ tracks' = AdvanceTracks(deltaTime)
             /\ frames' = pending \cup {[id |-> FreshHandle(pending),
                                         lastTime |-> now]}
             /\ animationFrameId' = FreshHandle(pending)
             /\ lastOp' = Op("tick", "none", deltaTime)
  /\ UNCHANGED <<variant, isPlaying, syncEnabled, now>>

DualNext ==
  \/ \E c \in Contents, b \in BOOLEAN : Dual_loadSubtitles(c, b)
  \/ \E k \in DOMAIN tracks, v \in SliderStops : Dual_progressInput(k, v)
  \/ \E k \in DOMAIN tracks, t \in TimeInputs : Dual_timeChange(k, t)
  \/ Dual_syncToggle
  \/ Dual_togglePlayPause
  \/ Dual_play
  \/ Dual_pause
  \/ \E f \in frames : Dual_updateFrame(f)

(***************************************************************************)
(* SubtitlePlayer, the single-track player.  Its subtitles, currentTimeMs  *)
(* and duration fields are those of tracks["primary"].                     *)
(***************************************************************************)

\* reset(): position 0, not playing, the pending callback cancelled.
Single_resetState ==
  /\ tracks' = [tracks EXCEPT !["primary"].currentTimeMs = 0]
  /\ isPlaying' = FALSE
  /\ frames' = CancelIfSet(frames)
  /\ animationFrameId' = 0

\* The Reset button's "click" handler.
Single_reset ==
  /\ variant = "single"
  /\ Single_resetState
  /\ lastOp' = Op("reset", "none", 0)
  /\ UNCHANGED <<variant, syncEnabled, now>>

\* SubtitlePlayer.loadSubtitles, from the "createSubtitleOverlay" message: a
\* throw of parseSRT leaves the player as it was, otherwise reset() follows.
Single_loadSubtitles(content) ==
  LET parsed == Single_ParsedSrt[content]
  IN /\ variant = "single"
     /\ IF parsed.ok
        THEN /\ tracks' = [tracks EXCEPT
                             !["primary"].subtitles = parsed.subs,
                             !["primary"].duration = DurationOf(parsed.subs),
                             !["primary"].currentTimeMs = 0]
             /\ isPlaying' = FALSE
             /\ frames' = CancelIfSet(frames)
             /\ animationFrameId' = 0
             /\ lastOp' = Op("load", "primary", 0)
        ELSE /\ lastOp' = Op("loadFailed", "primary", 0)
             /\ UNCHANGED <<tracks, isPlaying, frames, animationFrameId>>
     /\ UNCHANGED <<variant, syncEnabled, now>>

\* The progress bar's "input" handler.
Single_progressInput(newTime) ==
  /\ variant = "single"
  /\ newTime \in SliderValues(tracks["primary"])
  /\ tracks' = [tracks EXCEPT !["primary"].currentTimeMs = newTime]
  /\ lastOp' = Op("seek", "primary", newTime)
  /\ UNCHANGED <<variant, isPlaying, syncEnabled, animationFrameId, frames,
                 now>>

\* The time field's "change" handler: the time must lie in [0, duration].
Single_timeChange(value) ==
  LET newTime  == Single_ParsedTime[value]
      accepted == /\ newTime # Null
                  /\ newTime >= 0
                  /\ Le(newTime, tracks["primary"].duration)
  IN /\ variant = "single"
     /\ tracks' = IF accepted
                  THEN [tracks EXCEPT !["primary"].currentTimeMs = newTime]
                  ELSE tracks
     /\ lastOp' = IF accepted THEN Op("seek", "primary", newTime)
                  ELSE Op("seekRejected", "primary", 0)
     /\ UNCHANGED <<variant, isPlaying, syncEnabled, animationFrameId,
                    frames, now>>

\* play(): nothing happens while no subtitles are loaded.
Single_play ==
  /\ variant = "single"
  /\ IF tracks["primary"].subtitles = <<>>
     THEN /\ lastOp' = Op("playIgnored", "none", now)
          /\ UNCHANGED <<isPlaying, frames, animationFrameId>>
     ELSE /\ isPlaying' = TRUE
          /\ startTimer
          /\ lastOp' = Op("play", "none", now)
  /\ UNCHANGED <<variant, syncEnabled, tracks, now>>

Single_pause ==
  /\ variant = "single"
  /\ isPlaying' = FALSE
  /\ frames' = CancelIfSet(frames)
  /\ animationFrameId' = 0
  /\ lastOp' = Op("pause", "none", 0)
  /\ UNCHANGED <<variant, syncEnabled, tracks, now>>

Single_togglePlayPause == IF isPlaying THEN Single_pause ELSE Single_play

\* if (!this.isPlaying) return;
Single_frameReturns == ~isPlaying

\* if (this.currentTimeMs >= this.duration)
Single_endReached(advanced) == Ge(advanced, tracks["primary"].duration)

\* The frame callback updateFrame of the closure f, run with the timestamp
\* now: at or past the duration it calls reset() and registers nothing.
Single_updateFrame(f) ==
  /\ variant = "single"
  /\ f \in frames
  /\ IF Single_frameReturns
     THEN /\ frames' = frames \ {f}
          /\ lastOp' = Op("frame", "none", 0)
          /\ UNCHANGED <<tracks, isPlaying, animationFrameId>>
     ELSE LET deltaTime == now - f.lastTime
              advanced  == tracks["primary"].currentTimeMs + deltaTime
              pending   == frames \ {f}
          IN IF Single_endReached(advanced)
             THEN /\ tracks' = [tracks EXCEPT !["primary"].currentTimeMs = 0]
                  /\ isPlaying' = FALSE
                  /\ frames' = CancelIfSet(pending)
                  /\ animationFrameId' = 0
                  /\ lastOp' = Op("tickReset", "none", deltaTime)
             ELSE /\ tracks' = [tracks EXCEPT
                                  !["primary"].currentTimeMs = advanced]
                  /\ isPlaying' = TRUE
                  /\ frames' = pending \cup {[id |-> FreshHandle(pending),
                                              lastTime |-> now]}
                  /\ animationFrameId' = FreshHandle(pending)
                  /\ lastOp' = Op("tick", "none", deltaTime)
  /\ UNCHANGED <<variant, syncEnabled, now>>

SingleNext ==
  \/ \E c \in Single_Contents : Single_loadSubtitles(c)
  \/ \E v \in SliderStops : Single_progressInput(v)
  \/ \E t \in TimeInputs : Single_timeChange(t)
  \/ Single_togglePlayPause
  \/ Single_play
  \/ Single_pause
  \/ Single_reset
  \/ \E f \in frames : Single_updateFrame(f)

Next ==
  \/ \E d \in ClockSteps : AdvanceClock(d)
  \/ DualNext
  \/ SingleNext

Spec == Init /\ [][Next]_vars

(***************************************************************************)
(* Seeking with offsets.  No code of the engine writes timeOffset, a       *)
(* public field of SubtitleTrack that setAllTracksTime reads: SpecSeek     *)
(* draws both offsets when the tracks are constructed and runs the dual    *)
(* player's seek, sync and playback handlers.                              *)
(***************************************************************************)

OffsetValues == {0, 2000}

InitSeek ==
  /\ variant = "dual"
  /\ isPlaying = FALSE
  /\ syncEnabled = TRUE
  /\ \E offset \in [SlotsOf("dual") -> OffsetValues] :
       tracks = [k \in SlotsOf("dual") |->
                   [NewTrack EXCEPT !.timeOffset = offset[k]]]
  /\ animationFrameId = 0
  /\ frames = {}
  /\ now = 0
  /\ lastOp = Op("init", "none", 0)

NextSeek ==
  \/ \E d \in ClockSteps : AdvanceClock(d)
  \/ \E k \in DOMAIN tracks, v \in SliderStops : Dual_progressInput(k, v)
  \/ \E k \in DOMAIN tracks, t \in TimeInputs : Dual_timeChange(k, t)
  \/ Dual_syncToggle
  \/ Dual_togglePlayPause
  \/ \E f \in frames : Dual_updateFrame(f)

SpecSeek == InitSeek /\ [][NextSeek]_vars

(***************************************************************************)
(* Loading.  SpecLoad gives the players the files of LoadContents, with    *)
(* the offsets drawn as in SpecSeek, and runs the load, slider, sync,      *)
(* play/pause button and frame handlers.                                   *)
(***************************************************************************)

InitLoad ==
  /\ variant \in {"dual", "single"}
  /\ isPlaying = FALSE
  /\ syncEnabled = TRUE
  /\ \E offset \in [SlotsOf(variant) -> OffsetValues] :
       /\ variant = "single" => offset["primary"] = 0
       /\ tracks = [k \in SlotsOf(variant) |->
                      [NewTrack EXCEPT !.timeOffset = offset[k]]]
  /\ animationFrameId = 0
  /\ frames = {}
  /\ now = 0
  /\ lastOp = Op("init", "none", 0)

NextLoad ==
  \/ \E d \in ClockSteps : AdvanceClock(d)
  \/ \E c \in LoadContents, b \in BOOLEAN : Dual_loadSubtitles(c, b)
  \/ \E k \in DOMAIN tracks, v \in SliderStops : Dual_progressInput(k, v)
  \/ Dual_syncToggle
  \/ Dual_togglePlayPause
  \/ \E f \in frames : Dual_updateFrame(f)
  \/ \E c \in Single_LoadContents : Single_loadSubtitles(c)
  \/ \E v \in SliderStops : Single_progressInput(v)
  \/ Single_togglePlayPause
  \/ \E f \in frames : Single_updateFrame(f)

SpecLoad == InitLoad /\ [][NextLoad]_vars

(***************************************************************************)
(* Typing.  SpecType gives the time fields the strings of TypedInputs and  *)
(* runs the load, time field, sync, play/pause button and frame handlers.  *)
(***************************************************************************)

NextType ==
  \/ \E d \in ClockSteps : AdvanceClock(d)
  \/ \E c \in Contents, b \in BOOLEAN : Dual_loadSubtitles(c, b)
  \/ \E k \in DOMAIN tracks, t \in TypedInputs : Dual_timeChange(k, t)
  \/ Dual_syncToggle
  \/ Dual_togglePlayPause
  \/ \E f \in frames : Dual_updateFrame(f)
  \/ \E c \in Single_Contents : Single_loadSubtitles(c)
  \/ \E t \in TypedInputs : Single_timeChange(t)
  \/ Single_togglePlayPause
  \/ \E f \in frames : Single_updateFrame(f)

SpecType == Init /\ [][NextType]_vars

(***************************************************************************)
(* The buttons.  SpecToggle drives playback as the overlay's buttons do:   *)
(* play() and pause() are called by togglePlayPause() only.                *)
(***************************************************************************)

NextToggle ==
  \/ \E d \in ClockSteps : AdvanceClock(d)
  \/ \E c \in Contents, b \in BOOLEAN : Dual_loadSubtitles(c, b)
  \/ \E k \in DOMAIN tracks, v \in SliderStops : Dual_progressInput(k, v)
  \/ \E k \in DOMAIN tracks, t \in TimeInputs : Dual_timeChange(k, t)
  \/ Dual_syncToggle
  \/ Dual_togglePlayPause
  \/ \E f \in frames : Dual_updateFrame(f)
  \/ \E c \in Single_Contents : Single_loadSubtitles(c)
  \/ \E v \in SliderStops : Single_progressInput(v)
  \/ \E t \in TimeInputs : Single_timeChange(t)
  \/ Single_togglePlayPause
  \/ Single_reset
  \/ \E f \in frames : Single_updateFrame(f)

SpecToggle == Init /\ [][NextToggle]_vars


(***************************************************************************)
(* Properties                                                              *)
(***************************************************************************)

\* A step in which a handler named in ops ran: every handler writes lastOp,
\* and only the clock moves now.
Ran(ops) == now' = now /\ lastOp'.op \in ops

FrameOps == {"frame", "tick", "tickReset"}

HasEntries(k) == tracks[k].subtitles # <<>>

\* C1: while it is playing a player never has two pending frame callbacks,
\* that is two tick loops advancing the positions, whatever the sequence of
\* play(), pause(), togglePlayPause(), reset(), loads, seeks and frames.
C1_AtMostOneTickLoop == isPlaying => Cardinality(frames) <= 1

\* C2: a frame callback that runs while the player is not playing (from
\* pause() to the next play()) changes no track's position.
C2_NoDriftWhilePaused ==
  [][(~isPlaying /\ Ran(FrameOps)) =>
       \A k \in DOMAIN tracks :
         tracks'[k].currentTimeMs = tracks[k].currentTimeMs]_vars

\* A callback left pending by pause() has run, with a position played to
\* before the pause.
C2_Witness ==
  /\ lastOp.op = "frame"
  /\ ~isPlaying
  /\ \E k \in DOMAIN tracks : tracks[k].currentTimeMs > 0

\* C3: the first tick after a play() advances the positions by the frame's
\* timestamp minus the time of that play() call.
C3_FirstTickCountsFromPlay ==
  [][(lastOp.op = "play" /\ Ran({"tick", "tickReset"})) =>
       lastOp'.arg = now - lastOp.arg]_vars

\* C4: play() takes effect (playing, a tick scheduled) only when some track
\* has entries.
C4_PlayNeedsEntries ==
  lastOp.op = "play" => \E k \in DOMAIN tracks : HasEntries(k)

\* C5: after a seek of track S to newTime with sync on, S is at newTime and
\* every other track T at newTime + (S.timeOffset - T.timeOffset), unclamped.
C5_SyncedSeek ==
  (lastOp.op = "seek" /\ syncEnabled) =>
    LET S == lastOp.slot
        newTime == lastOp.arg
    IN /\ tracks[S].currentTimeMs = newTime
       /\ \A T \in DOMAIN tracks \ {S} :
            tracks[T].currentTimeMs =
              newTime + (tracks[S].timeOffset - tracks[T].timeOffset)

\* The secondary track (offset 0) was sought to 5000 with sync on and the
\* primary track (offset 2000, no entries, duration 0) moved to 3000.
C5_Witness ==
  /\ lastOp = Op("seek", "secondary", 5000)
  /\ syncEnabled
  /\ tracks["primary"].timeOffset = 2000
  /\ tracks["secondary"].timeOffset = 0
  /\ tracks["primary"].currentTimeMs = 3000
  /\ tracks["secondary"].duration < 5000

\* The state the example of C6 is about: sync on, primary offset 0,
\* secondary offset 2000, primary just sought to 5000.
C6_Case ==
  /\ lastOp = Op("seek", "primary", 5000)
  /\ syncEnabled
  /\ tracks["primary"].timeOffset = 0
  /\ tracks["secondary"].timeOffset = 2000

\* C6 as stated: the secondary track is then at 7000, and after any synced
\* seek a track with a larger offset than the source track's is that many
\* milliseconds ahead of the source track.
C6_LargerOffsetAhead ==
  /\ C6_Case => tracks["secondary"].currentTimeMs = 7000
  /\ (lastOp.op = "seek" /\ syncEnabled) =>
       \A T \in DOMAIN tracks :
         tracks[T].timeOffset > tracks[lastOp.slot].timeOffset =>
           tracks[T].currentTimeMs - tracks[lastOp.slot].currentTimeMs =
             tracks[T].timeOffset - tracks[lastOp.slot].timeOffset

\* C6 as amended: the secondary track is then at 3000, and after any synced
\* seek a track with a larger offset than the source track's is that many
\* milliseconds behind the source track.
C6_LargerOffsetBehind ==
  /\ C6_Case => tracks["secondary"].currentTimeMs = 3000
  /\ (lastOp.op = "seek" /\ syncEnabled) =>
       \A T \in DOMAIN tracks :
         tracks[T].timeOffset > tracks[lastOp.slot].timeOffset =>
           tracks[lastOp.slot].currentTimeMs - tracks[T].currentTimeMs =
             tracks[T].timeOffset - tracks[lastOp.slot].timeOffset

C6_Witness == C6_Case /\ tracks["primary"].currentTimeMs = 5000

\* C7: a seek of one track with sync off sets that track's position and
\* leaves the other track, both offsets, both timelines, syncEnabled, the
\* playing flag and the pending callbacks as they were.
C7_UnsyncedSeekFrame ==
  [][(variant = "dual" /\ ~syncEnabled /\ Ran({"seek"})) =>
       /\ tracks'[lastOp'.slot] =
            [tracks[lastOp'.slot] EXCEPT !.currentTimeMs = lastOp'.arg]
       /\ \A k \in DOMAIN tracks \ {lastOp'.slot} : tracks'[k] = tracks[k]
       /\ UNCHANGED <<syncEnabled, isPlaying, animationFrameId, frames>>]_vars

\* The primary track was sought to 5000 with sync off, while playing, and
\* the secondary track is still where playback had brought it.
C7_Witness ==
  /\ variant = "dual"
  /\ lastOp = Op("seek", "primary", 5000)
  /\ ~syncEnabled
  /\ isPlaying
  /\ tracks["secondary"].currentTimeMs = 500

\* C8: a tick of the dual player adds the time elapsed since the closure's
\* lastTime to the position of every track, with or without entries, sync on
\* or off, and changes no offset, timeline or syncEnabled.
C8_TickAdvancesAll ==
  [][(variant = "dual" /\ Ran({"tick"})) =>
       /\ \A k \in DOMAIN tracks :
            tracks'[k] =
              [tracks[k] EXCEPT !.currentTimeMs = @ + lastOp'.arg]
       /\ \E f \in frames : lastOp'.arg = now - f.lastTime
       /\ syncEnabled' = syncEnabled]_vars

\* Two ticks of 500 ms, the second at time 1000, with sync off: the primary
\* track (with entries) and the secondary track (without) are both 1000 on
\* from where play() found them.
C8_Witness ==
  /\ variant = "dual"
  /\ lastOp = Op("tick", "none", 500)
  /\ ~syncEnabled
  /\ now = 1000
  /\ HasEntries("primary")
  /\ ~HasEntries("secondary")
  /\ tracks["primary"].currentTimeMs = 1000
  /\ tracks["secondary"].currentTimeMs = 1000
  /\ Cardinality(frames) = 1

\* C9: after every tick of the single-track player it is either playing at
\* a position below the duration, or paused at position 0.
C9_TickStopsAtDuration ==
  (variant = "single" /\ lastOp.op \in {"tick", "tickReset"}) =>
    \/ /\ isPlaying
       /\ ~IsNaN(tracks["primary"].duration)
       /\ tracks["primary"].currentTimeMs < tracks["primary"].duration
    \/ /\ ~isPlaying
       /\ tracks["primary"].currentTimeMs = 0

\* C10: the dual player stops playing only in pause(); while it plays, every
\* frame callback that runs advances both positions by the elapsed time and
\* registers the next callback, also past the tracks' durations.
C10_DualNeverStops ==
  [][(variant = "dual" /\ isPlaying) =>
       /\ lastOp'.op # "pause" => isPlaying'
       /\ Ran(FrameOps) =>
            /\ lastOp'.op = "tick"
            /\ lastOp'.arg >= 0
            /\ \A k \in DOMAIN tracks :
                 tracks'[k].currentTimeMs =
                   tracks[k].currentTimeMs + lastOp'.arg
            /\ Cardinality(frames') = Cardinality(frames)
            /\ animationFrameId' \in Handles(frames')]_vars

\* A tick has run with both tracks loaded and both positions past their
\* durations, and the player still plays with a callback pending.
C10_Witness ==
  /\ variant = "dual"
  /\ lastOp.op = "tick"
  /\ lastOp.arg > 0
  /\ isPlaying
  /\ \A k \in DOMAIN tracks :
       /\ HasEntries(k)
       /\ ~IsNaN(tracks[k].duration)
       /\ tracks[k].currentTimeMs - lastOp.arg > tracks[k].duration
  /\ frames # {}

\* C11: a load that succeeds leaves the playing flag as it was, and a frame
\* callback is pending after it exactly when one was pending before it.
C11_LoadKeepsPlayback ==
  [][Ran({"load"}) =>
       /\ isPlaying' = isPlaying
       /\ (frames' = {}) <=> (frames = {})]_vars

\* C12: a successful load into one slot of the dual player puts a parsed
\* file's entries and their duration in that slot, sets its position to 0,
\* keeps its offset, and leaves the other slot as it was.
C12_LoadReplacesOneSlot ==
  [][(variant = "dual" /\ Ran({"load"})) =>
       LET S == lastOp'.slot
       IN /\ \E c \in LoadContents :
               /\ ParsedSrt[c].ok
               /\ tracks'[S].subtitles = ParsedSrt[c].subs
          /\ tracks'[S].subtitles # <<>>
          /\ tracks'[S].duration =
               tracks'[S].subtitles[Len(tracks'[S].subtitles)].end
          /\ tracks'[S].currentTimeMs = 0
          /\ tracks'[S].timeOffset = tracks[S].timeOffset
          /\ \A k \in DOMAIN tracks \ {S} : tracks'[k] = tracks[k]]_vars

\* The secondary slot (offset 2000) was just loaded, while playing, and the
\* primary slot still holds its entries and the position playback gave it.
C12_Witness ==
  /\ variant = "dual"
  /\ lastOp = Op("load", "secondary", 0)
  /\ isPlaying
  /\ tracks["secondary"].timeOffset = 2000
  /\ tracks["secondary"].currentTimeMs = 0
  /\ HasEntries("secondary")
  /\ HasEntries("primary")
  /\ tracks["primary"].currentTimeMs = 1000

\* C13: a load of a malformed file (no timecode line, malformed separator,
\* non-numeric time field) changes no track, nor the playing state.
C13_MalformedLoadChangesNothing ==
  [][\A c \in MalformedContents :
       ((\E b \in BOOLEAN : Dual_loadSubtitles(c, b))
          \/ Single_loadSubtitles(c)) =>
         UNCHANGED <<tracks, isPlaying, frames, animationFrameId>>]_vars

\* C14: a load of a file that is empty once trimmed succeeds: no error is
\* raised, and the track then has no entries, duration 0 and no active
\* caption.
C14_EmptyInputLoads ==
  [][((\E b \in BOOLEAN : Dual_loadSubtitles(SrtEmpty, b))
        \/ Single_loadSubtitles(SrtEmpty)) =>
       /\ lastOp'.op = "load"
       /\ tracks'[lastOp'.slot].subtitles = <<>>
       /\ tracks'[lastOp'.slot].duration = 0
       /\ getCurrentSubtitle(tracks'[lastOp'.slot]) = 0]_vars

\* C15: a file with a non-numeric time field is never loaded, and every
\* entry a track holds starts and ends at a non-negative number of
\* milliseconds.
C15_EntriesAreTimes ==
  /\ \A k \in DOMAIN tracks :
       \A i \in 1..Len(tracks[k].subtitles) :
         /\ ~IsNaN(tracks[k].subtitles[i].start)
         /\ tracks[k].subtitles[i].start >= 0
         /\ ~IsNaN(tracks[k].subtitles[i].end)
         /\ tracks[k].subtitles[i].end >= 0
  /\ lastOp.op = "load" =>
       tracks[lastOp.slot].subtitles # ParsedSrt[SrtBadEnd].subs

\* The index of the entry the player shows for track k, 0 for none.
ActiveCaption(k) ==
  IF variant = "dual" THEN getCurrentSubtitle(tracks[k])
  ELSE Single_currentSub(tracks[k])

\* Whether entry i of track k contains the track's position plus offset.
Contains(k, i) ==
  LET t == tracks[k].currentTimeMs + tracks[k].timeOffset
  IN /\ tracks[k].subtitles[i].start <= t
     /\ t <= tracks[k].subtitles[i].end

\* C16: the active caption of a track is the first entry, in the order of
\* the file, whose range [start, end] contains position + offset, both ends
\* included, and none when no entry contains it.
C16_ActiveIsFirstMatch ==
  \A k \in DOMAIN tracks :
    LET n == Len(tracks[k].subtitles)
        a == ActiveCaption(k)
    IN IF \E i \in 1..n : Contains(k, i)
       THEN /\ a \in 1..n
            /\ Contains(k, a)
            /\ \A j \in 1..(a - 1) : ~Contains(k, j)
       ELSE a = 0

\* One track (offset 2000, position 500) stands at the end time of its first
\* entry, which is active; on the other track both entries contain the time
\* and the first is active although the second starts earlier.
C16_Witness ==
  /\ variant = "dual"
  /\ \E k \in DOMAIN tracks :
       /\ tracks[k].timeOffset = 2000
       /\ Len(tracks[k].subtitles) = 2
       /\ tracks[k].currentTimeMs + 2000 = tracks[k].subtitles[1].end
       /\ getCurrentSubtitle(tracks[k]) = 1
       /\ \E j \in DOMAIN tracks \ {k} :
            /\ Len(tracks[j].subtitles) = 2
            /\ Contains(j, 1)
            /\ Contains(j, 2)
            /\ tracks[j].subtitles[2].start < tracks[j].subtitles[1].start
            /\ getCurrentSubtitle(tracks[j]) = 1

\* ((H*60+M)*60+S)*1000+mmm
Millis(t) == ((t.h * 60 + t.m) * 60 + t.s) * 1000 + t.ms

\* The step is a successful load of the file f by either player.
LoadsFile(f) ==
  \/ f \in Files /\ \E b \in BOOLEAN : Dual_loadSubtitles(f.text, b)
  \/ f \in Single_Files /\ Single_loadSubtitles(f.text)

\* C17: after a load of a well-formed file the track holds one entry per
\* block, in the order of the blocks, and the entry of a block starts and
\* ends at ((H*60+M)*60+S)*1000+mmm of the two times of its timecode line.
C17_EntriesCarryTimecodes ==
  [][\A f \in Files \cup Single_Files :
       LoadsFile(f) =>
         LET subs == tracks'[lastOp'.slot].subtitles
         IN /\ lastOp'.op = "load"
            /\ Len(subs) = Len(f.blocks)
            /\ \A i \in 1..Len(f.blocks) :
                 /\ subs[i].start = Millis(f.blocks[i].start)
                 /\ subs[i].end = Millis(f.blocks[i].end)
                 /\ subs[i].text = f.blocks[i].text]_vars

\* The file "01:02:03,004 --> 10:20:30,400" / "00:59:59,999 --> 01:00:00,000"
\* was just loaded.
C17_Witness ==
  /\ lastOp.op = "load"
  /\ Len(tracks[lastOp.slot].subtitles) = 2
  /\ tracks[lastOp.slot].subtitles[1].start = 3723004
  /\ tracks[lastOp.slot].subtitles[1].end = 37230400
  /\ tracks[lastOp.slot].subtitles[2].start = 3599999
  /\ tracks[lastOp.slot].subtitles[2].end = 3600000

\* C18: a track's duration is the end time of the last entry it holds, in
\* the order of the file, and 0 when it holds none.
C18_DurationIsLastEnd ==
  \A k \in DOMAIN tracks :
    LET subs == tracks[k].subtitles
    IN tracks[k].duration =
         IF subs = <<>> THEN 0 ELSE subs[Len(subs)].end

\* A file was just loaded whose last entry ends at 2000, before the end
\* (2500) of its first entry: the duration is 2000.
C18_Witness ==
  /\ lastOp.op = "load"
  /\ Len(tracks[lastOp.slot].subtitles) = 2
  /\ tracks[lastOp.slot].subtitles[1].end = 2500
  /\ tracks[lastOp.slot].subtitles[2].end = 2000
  /\ tracks[lastOp.slot].duration = 2000

\* The typed strings with a non-numeric, a missing or an empty field.
UnusableInputs == {TimeBad, TimeShort, TimeGap}

\* C19: a change of a time field to a string with a non-numeric or missing
\* hours, minutes or seconds field is rejected, and no track's position, nor
\* the playing flag, nor the pending callbacks change.
C19_UnusableInputRejected ==
  [][\A v \in UnusableInputs :
       ((\E k \in DOMAIN tracks : Dual_timeChange(k, v))
          \/ Single_timeChange(v)) =>
         /\ lastOp'.op = "seekRejected"
         /\ UNCHANGED <<tracks, isPlaying, frames, animationFrameId>>]_vars

\* C20: the text the dual player shows for a track's position and duration,
\* read back by its time-input parser, is the position truncated to whole
\* seconds.
C20_DisplayRoundTrip ==
  variant = "dual" =>
    \A k \in DOMAIN tracks :
      parseTimeInput(formatTimeDisplay(tracks[k].currentTimeMs,
                                       tracks[k].duration))
        = tracks[k].currentTimeMs - Rem(tracks[k].currentTimeMs, 1000)

\* The typed strings that parse, with the time each one means.
TypedTimes ==
  {[text |-> TimeOne, ms |-> 1000], [text |-> TimeFive, ms |-> 5000],
   [text |-> TimeNeg, ms |-> -5000]}

\* C21: a change of a track's time field to a string that parses stores the
\* parsed time as that track's position, whether or not it lies in
\* [0, duration].
C21_SeekStoresAnyTime ==
  [][\A t \in TypedTimes, k \in DOMAIN tracks :
       (Dual_timeChange(k, t.text)
          \/ (k = "primary" /\ Single_timeChange(t.text))) =>
         /\ lastOp'.op = "seek"
         /\ tracks'[k].currentTimeMs = t.ms]_vars

\* C22: reset() of the single-track player, whatever the state it is called
\* in, ends with the player not playing, no frame callback pending and the
\* position 0, and with the entries and the duration it found.
C22_ResetStops ==
  [][(variant = "single" /\ Ran({"reset"})) =>
       /\ ~isPlaying'
       /\ frames' = {}
       /\ \A k \in DOMAIN tracks :
            /\ tracks'[k].currentTimeMs = 0
            /\ tracks'[k].subtitles = tracks[k].subtitles
            /\ tracks'[k].duration = tracks[k].duration]_vars

\* The time of the latest play() or tick: each registers a callback whose
\* lastTime is the time it ran at, and time never runs backwards.
LatestAnchor ==
  CHOOSE t \in {f.lastTime : f \in frames} :
    \A g \in frames : g.lastTime <= t

\* C23: every tick advances the positions by the time elapsed since the
\* tick before it, or since play() when it is the first one, so that the
\* advances of a playing interval add up to the time elapsed since play().
C23_TickCountsFromPreviousTick ==
  [][Ran({"tick", "tickReset"}) => lastOp'.arg = now - LatestAnchor]_vars

\* C24: with play() and pause() called through togglePlayPause() only, a
\* player that is playing has exactly one frame callback pending and a
\* player that is not playing has none.
C24_PlayingIffOnePending ==
  Cardinality(frames) = IF isPlaying THEN 1 ELSE 0

\* Playback was resumed by the button after an earlier run and pause: one
\* callback is pending.
C24_Witness ==
  /\ lastOp.op = "play"
  /\ isPlaying
  /\ Cardinality(frames) = 1
  /\ \E k \in DOMAIN tracks : tracks[k].currentTimeMs > 0
  /\ now > 0

\* C25: in the dual player both offsets are 0 in every state, and right
\* after a seek with sync on both tracks are at the time sought.
C25_OffsetsStayZero ==
  variant = "dual" =>
    /\ \A k \in DOMAIN tracks : tracks[k].timeOffset = 0
    /\ (lastOp.op = "seek" /\ syncEnabled) =>
         \A k \in DOMAIN tracks : tracks[k].currentTimeMs = lastOp.arg

\* The secondary track was sought to 500 with sync on, while playing, after
\* loads, ticks and a turn of the sync button, and both tracks are at 500.
C25_Witness ==
  /\ variant = "dual"
  /\ lastOp = Op("seek", "secondary", 500)
  /\ syncEnabled
  /\ isPlaying
  /\ now > 0
  /\ HasEntries("primary")
  /\ HasEntries("secondary")
  /\ tracks["primary"].currentTimeMs = 500
  /\ tracks["secondary"].currentTimeMs = 500

\* Whether all tracks have the same query time, position + offset.
QueryTimesEqual ==
  \A j, k \in DOMAIN tracks :
    tracks[j].currentTimeMs + tracks[j].timeOffset
      = tracks[k].currentTimeMs + tracks[k].timeOffset

\* C26: the tracks of the dual player have equal query times right after a
\* seek with sync on, and a step that ends that equality is a seek with sync
\* off or a load: ticks, play, pause and the sync button keep it.
C26_QueryTimesStayEqual ==
  [][variant = "dual" =>
       /\ (Ran({"seek"}) /\ syncEnabled) => QueryTimesEqual'
       /\ (QueryTimesEqual /\ ~QueryTimesEqual') =>
            \/ Ran({"seek"}) /\ ~syncEnabled
            \/ Ran({"load"})]_vars

\* A tick has run with offsets 0 and 2000 and the tracks, at different
\* positions, still have the query time a synced seek gave them.
C26_Witness ==
  /\ variant = "dual"
  /\ lastOp.op = "tick"
  /\ lastOp.arg > 0
  /\ tracks["primary"].timeOffset = 0
  /\ tracks["secondary"].timeOffset = 2000
  /\ tracks["primary"].currentTimeMs = 1000
  /\ tracks["secondary"].currentTimeMs = -1000
  /\ QueryTimesEqual

=============================================================================
